---- MODULE Spec2Model ----
(***************************************************************************)
(* Analytics engine of the portfolio tracker: valuation                    *)
(* (src/src/calculations.py), weighted return reconstruction               *)
(* (src/src/calculations.py) and the risk metrics (src/src/risk_metrics.py)*)
(*                                                                         *)
(* Numbers.  A float is modelled as an exact rational <<n, d>> in lowest   *)
(* terms with d > 0; the IEEE specials are the pairs with d = 0:           *)
(* <<0, 0>> is NaN, <<1, 0>> is +inf and <<-1, 0>> is -inf.  Rounding and  *)
(* the sign of zero are not modelled.                                      *)
(*                                                                         *)
(* Specifications.  The calculations are pure functions; each has a        *)
(* specification whose initial states draw its arguments and whose actions *)
(* apply it: SpecVal (valuation), SpecRet (return series), SpecRisk        *)
(* (volatility, Sharpe ratio, drawdown, value at risk), SpecBeta (beta),   *)
(* SpecLots (return series of tables with several lots of a ticker) and   *)
(* SpecExample (the worked example).  SpecApp is the sidebar of            *)
(* src/app.py over src/src/portfolio_manager.py: the session's holdings    *)
(* table and the SQLite file it is saved to and loaded from.               *)
(***************************************************************************)
EXTENDS Integers, Sequences, FiniteSets, TLC

VARIABLES
    portfolio_df,      \* the holdings table handed to the calculations
    current_prices,    \* dict ticker -> current price
    result_df,         \* what calculate_portfolio_values returned
    summary,           \* what portfolio_summary returned (or the exception)
    prices_df,         \* the historical price panel
    pct_fill,          \* the fill_method default of DataFrame.pct_change
    returns_out,       \* what calculate_portfolio_returns returned
    returns,           \* the return series handed to a risk metric
    benchmark_returns, \* the benchmark return series handed to calculate_beta
    risk_free_rate,    \* argument of sharpe_ratio
    periods_per_year,  \* argument of annualized_volatility and sharpe_ratio
    metric,            \* what the risk metrics returned
    db_holdings,       \* the rows of the holdings table of the SQLite file
    pc                 \* the position of the analytics pass

vars == <<portfolio_df, current_prices, result_df, summary, prices_df, pct_fill,
          returns_out, returns, benchmark_returns, risk_free_rate,
          periods_per_year, metric, db_holdings, pc>>

(***************************************************************************)
(* Bounds of the model.                                                    *)
(***************************************************************************)
MaxHoldings == 2
MaxLots == 2
MaxDates == 3
MaxNaN == 1
MaxLen == 3
MaxMerged == 3

(***************************************************************************)
(* Float arithmetic.                                                       *)
(***************************************************************************)
Abs(x) == IF x < 0 THEN -x ELSE x

Sign(x) == IF x < 0 THEN -1 ELSE IF x > 0 THEN 1 ELSE 0

RECURSIVE GCD(_, _)
GCD(a, b) == IF b = 0 THEN a ELSE GCD(b, a % b)

Rat(n, d) ==
    IF d = 0 THEN <<Sign(n), 0>>
    ELSE LET g == GCD(Abs(n), Abs(d))
         IN  <<(Sign(d) * n) \div g, Abs(d) \div g>>

Num(n) == <<n, 1>>

NaN == <<0, 0>>

Zero == <<0, 1>>

One == <<1, 1>>

IsNaN(x) == x = NaN

IsFinite(x) == x[2] > 0

RNeg(x) == <<-x[1], x[2]>>

RAdd(x, y) ==
    IF x[2] = 0 /\ y[2] = 0
    THEN (IF x = y THEN x ELSE NaN)
    ELSE Rat(x[1] * y[2] + y[1] * x[2], x[2] * y[2])

RSub(x, y) == RAdd(x, RNeg(y))

RMul(x, y) == Rat(x[1] * y[1], x[2] * y[2])

RInv(x) ==
    IF x[2] = 0 THEN (IF x[1] = 0 THEN NaN ELSE Zero)
    ELSE IF x[1] = 0 THEN <<1, 0>>
    ELSE <<Sign(x[1]) * x[2], Abs(x[1])>>

RDiv(x, y) == RMul(x, RInv(y))

\* x < y and x <= y as IEEE compares: false when either side is NaN
RLt(x, y) ==
    /\ ~IsNaN(x)
    /\ ~IsNaN(y)
    /\ IF x[2] = 0 /\ y[2] = 0 THEN x[1] < y[1] ELSE x[1] * y[2] < y[1] * x[2]

RLe(x, y) == ~IsNaN(x) /\ ~IsNaN(y) /\ (x = y \/ RLt(x, y))

(***************************************************************************)
(* Series reductions of pandas: sum() skips NaN and is 0 when nothing is   *)
(* left.                                                                   *)
(***************************************************************************)
RECURSIVE SumSkipNaN(_)
SumSkipNaN(xs) ==
    IF xs = <<>> THEN Zero
    ELSE IF IsNaN(Head(xs)) THEN SumSkipNaN(Tail(xs))
    ELSE RAdd(Head(xs), SumSkipNaN(Tail(xs)))

Column(rows, name) == [i \in 1..Len(rows) |-> rows[i][name]]

(***************************************************************************)
(* Valuation calculator.                                                   *)
(*                                                                         *)
(* A DataFrame is [rows, dtype]: dtype is the dtype of its numeric         *)
(* columns.  The empty table the program builds itself,                    *)
(* pd.DataFrame(columns=[...]), has object columns, whose sum() is the     *)
(* Python int 0; a table with rows has float64 columns, whose sum() is a   *)
(* numpy float64.                                                          *)
(***************************************************************************)
Tickers == {"AAPL", "MSFT"}

\* Series.map(dict): NaN where the key is missing
MapPrice(ticker, prices) ==
    IF ticker \in DOMAIN prices THEN prices[ticker] ELSE NaN

\* mutant: the gain is taken as cost - value
ValueRowSwapped(row, prices) ==
    LET cp == MapPrice(row.Ticker, prices)
        tc == RMul(Num(row.Quantity), row.Buy_Price)
        cv == RMul(Num(row.Quantity), cp)
        gl == RSub(tc, cv)
    IN  [Ticker |-> row.Ticker, Quantity |-> row.Quantity,
         Buy_Price |-> row.Buy_Price, Current_Price |-> cp,
         Total_Cost |-> tc, Current_Value |-> cv, Gain_Loss |-> gl,
         Return_pct |-> RMul(RDiv(gl, tc), Num(100))]

ValueRow(row, prices) ==
    LET cp == MapPrice(row.Ticker, prices)
        tc == RMul(Num(row.Quantity), row.Buy_Price)
        cv == RMul(Num(row.Quantity), cp)
        gl == RSub(cv, tc)
    IN  [Ticker |-> row.Ticker, Quantity |-> row.Quantity,
         Buy_Price |-> row.Buy_Price, Current_Price |-> cp,
         Total_Cost |-> tc, Current_Value |-> cv, Gain_Loss |-> gl,
         Return_pct |-> RMul(RDiv(gl, tc), Num(100))]

\* mutant: the rows without a current price are dropped
calculate_portfolio_values_dropna(df, prices) ==
    [rows  |-> SelectSeq([i \in 1..Len(df.rows) |-> ValueRow(df.rows[i], prices)],
                         LAMBDA r : ~IsNaN(r.Current_Price)),
     dtype |-> df.dtype]

calculate_portfolio_values(df, prices) ==
    [rows  |-> [i \in 1..Len(df.rows) |-> ValueRow(df.rows[i], prices)],
     dtype |-> df.dtype]

\* scalar division: a Python number raises on a zero divisor, a numpy
\* float64 gives nan or inf
ScalarDiv(x, y, dtype) ==
    IF dtype = "object" /\ y = Zero
    THEN [exc |-> "ZeroDivisionError", val |-> NaN]
    ELSE [exc |-> "", val |-> RDiv(x, y)]

\* mutant: the cost is summed over the rows with a current price only
TotalInvestedValidRows(df) ==
    SumSkipNaN([i \in 1..Len(df.rows) |->
                  IF IsNaN(df.rows[i].Current_Price) THEN NaN
                  ELSE df.rows[i].Total_Cost])

TotalInvested(df) == SumSkipNaN(Column(df.rows, "Total_Cost"))

\* mutant: sum(skipna=False)
TotalValueNoSkip(df) ==
    IF \E i \in 1..Len(df.rows) : IsNaN(df.rows[i].Current_Value) THEN NaN
    ELSE SumSkipNaN(Column(df.rows, "Current_Value"))

TotalValue(df) == SumSkipNaN(Column(df.rows, "Current_Value"))

portfolio_summary(df) ==
    LET total_invested == TotalInvested(df)
        total_value    == TotalValue(df)
        q == ScalarDiv(RSub(total_value, total_invested), total_invested, df.dtype)
    IN  [exc            |-> q.exc,
         total_invested |-> total_invested,
         total_value    |-> total_value,
         total_return   |-> IF q.exc = "" THEN RMul(q.val, Num(100)) ELSE NaN]

(***************************************************************************)
(* The inputs of the valuation pass.                                       *)
(***************************************************************************)
Quantities == {1, 10}

BuyPrices == {Zero, Num(100)}

MarketPrices == {Num(100), Num(150)}

Holdings == [Ticker : Tickers, Quantity : Quantities, Buy_Price : BuyPrices]

RECURSIVE SeqsUpTo(_, _)
SeqsUpTo(S, n) ==
    IF n = 0 THEN {<<>>}
    ELSE LET shorter == SeqsUpTo(S, n - 1)
         IN  shorter \cup {Append(s, x) : s \in {t \in shorter : Len(t) = n - 1}, x \in S}

PriceMaps == UNION {[T -> MarketPrices] : T \in SUBSET Tickers}

DataFrames ==
    {[rows |-> r, dtype |-> d] :
        r \in SeqsUpTo(Holdings, MaxHoldings), d \in {"object", "float64"}}

NoFrame == [rows |-> <<>>, dtype |-> "object"]

NoPanel == [cols |-> {}, rows |-> <<>>]

NoReturns == [returns |-> <<>>, cumulative |-> <<>>]

NoMetric == [fn |-> "", val |-> NaN]

NoSummary == [exc |-> "", total_invested |-> NaN, total_value |-> NaN,
              total_return |-> NaN]

InitVal ==
    /\ portfolio_df \in {df \in DataFrames : df.rows # <<>> => df.dtype = "float64"}
    /\ current_prices \in PriceMaps
    /\ result_df = NoFrame
    /\ summary = NoSummary
    /\ prices_df = NoPanel
    /\ pct_fill = "pad"
    /\ returns_out = NoReturns
    /\ returns = <<>>
    /\ benchmark_returns = <<>>
    /\ risk_free_rate = Zero
    /\ periods_per_year = 1
    /\ metric = NoMetric
    /\ db_holdings = <<>>
    /\ pc = "input"

CalculatePortfolioValues ==
    /\ pc = "input"
    /\ result_df' = calculate_portfolio_values(portfolio_df, current_prices)
    /\ pc' = "valued"
    /\ UNCHANGED <<portfolio_df, current_prices, summary, prices_df, pct_fill,
                   returns_out, returns, benchmark_returns, risk_free_rate,
                   periods_per_year, metric, db_holdings>>

PortfolioSummary ==
    /\ pc = "valued"
    /\ summary' = portfolio_summary(result_df)
    /\ pc' = "summarized"
    /\ UNCHANGED <<portfolio_df, current_prices, result_df, prices_df, pct_fill,
                   returns_out, returns, benchmark_returns, risk_free_rate,
                   periods_per_year, metric, db_holdings>>

NextVal == CalculatePortfolioValues \/ PortfolioSummary

SpecVal == InitVal /\ [][NextVal]_vars

(***************************************************************************)
(* Return series builder.                                                  *)
(*                                                                         *)
(* A price panel is [cols, rows]: cols the set of its column tickers and   *)
(* rows[t] the prices of trading date t, NaN where the source has none.    *)
(* A Series is a sequence of [date, val] in date order.                    *)
(***************************************************************************)
RECURSIVE SetToSeq(_)
SetToSeq(S) ==
    IF S = {} THEN <<>>
    ELSE LET x == CHOOSE y \in S : TRUE
         IN  <<x>> \o SetToSeq(S \ {x})

Values(series) == [i \in 1..Len(series) |-> series[i].val]

InitialValue(row) == RMul(Num(row.Quantity), row.Buy_Price)

HeldTickers(df) == {df.rows[i].Ticker : i \in 1..Len(df.rows)}

\* groupby("Ticker")["Initial_Value"].sum()
AggregatedLastLot(df) ==
    [t \in HeldTickers(df) |->
        LET lots == SelectSeq(df.rows, LAMBDA row : row.Ticker = t)
        IN  InitialValue(lots[Len(lots)])]

\* groupby("Ticker")["Initial_Value"].sum()
Aggregated(df) ==
    [t \in HeldTickers(df) |->
        SumSkipNaN(SelectSeq([i \in 1..Len(df.rows) |->
                                 IF df.rows[i].Ticker = t THEN InitialValue(df.rows[i])
                                 ELSE NaN],
                             LAMBDA v : ~IsNaN(v)))]

Weights(df) ==
    LET aggregated    == Aggregated(df)
        keys          == SetToSeq(DOMAIN aggregated)
        total_initial == SumSkipNaN([i \in 1..Len(keys) |-> aggregated[keys[i]]])
    IN  [t \in DOMAIN aggregated |-> RDiv(aggregated[t], total_initial)]

\* DataFrame.ffill(): a missing price takes the last known one of its column
RECURSIVE FFill(_, _, _)
FFill(rows, t, c) ==
    IF t = 1 \/ ~IsNaN(rows[t][c]) THEN rows[t][c] ELSE FFill(rows, t - 1, c)

\* DataFrame.pct_change(): the first row is NaN.  The call passes no
\* fill_method, and the default depends on the installed pandas: "pad" (the
\* prices are forward filled first) or no filling; fill is either.
PctChange(panel, fill) ==
    LET price(t, c) == IF fill = "pad" THEN FFill(panel.rows, t, c) ELSE panel.rows[t][c]
    IN  [t \in 1..Len(panel.rows) |->
            [c \in panel.cols |->
                IF t = 1 THEN NaN
                ELSE RSub(RDiv(price(t, c), price(t - 1, c)), One)]]

\* DataFrame.dropna(): the dates on which every column has a value
KeptDates(frame, cols) ==
    SelectSeq([t \in 1..Len(frame) |-> t],
              LAMBDA t : \A c \in cols : ~IsNaN(frame[t][c]))

CumProdUncompounded(xs) == xs

\* Series.cumprod(): a NaN stays NaN in place and is skipped by the product
RECURSIVE CumProd(_)
CumProd(xs) ==
    IF xs = <<>> THEN <<>>
    ELSE LET n    == Len(xs)
             init == CumProd(SubSeq(xs, 1, n - 1))
             seen == SelectSeq(init, LAMBDA v : ~IsNaN(v))
             prev == IF seen = <<>> THEN One ELSE seen[Len(seen)]
         IN  Append(init, IF IsNaN(xs[n]) THEN NaN ELSE RMul(prev, xs[n]))

OnePlus(xs) == [i \in 1..Len(xs) |-> RAdd(One, xs[i])]

CommonTickers(panel, df) == HeldTickers(df) \cap panel.cols

calculate_portfolio_returns(panel, df, fill) ==
    LET weights        == Weights(df)
        pct            == PctChange(panel, fill)
        dates          == KeptDates(pct, panel.cols)
        common_tickers == SetToSeq(CommonTickers(panel, df))
        weighted(t)    == [k \in 1..Len(common_tickers) |->
                             RMul(pct[t][common_tickers[k]], weights[common_tickers[k]])]
        portfolio_returns ==
            [i \in 1..Len(dates) |-> [date |-> dates[i], val |-> SumSkipNaN(weighted(dates[i]))]]
        cumulative == CumProd(OnePlus(Values(portfolio_returns)))
    IN  [returns    |-> portfolio_returns,
         cumulative |-> [i \in 1..Len(dates) |-> [date |-> dates[i], val |-> cumulative[i]]]]

(***************************************************************************)
(* The inputs of the return reconstruction.                                *)
(***************************************************************************)
Lots == {[Ticker |-> "AAPL", Quantity |-> 1, Buy_Price |-> Num(100)],
         [Ticker |-> "MSFT", Quantity |-> 1, Buy_Price |-> Num(300)]}

Closes == {NaN, Num(100), Num(150)}

NaNCount(rows, cols) ==
    Cardinality({<<t, c>> \in (1..Len(rows)) \X cols : IsNaN(rows[t][c])})

\* fetch_historical_data returns pd.DataFrame() for a frame without rows
Panels ==
    {NoPanel} \cup
    UNION {{[cols |-> C, rows |-> r] : r \in SeqsUpTo([C -> Closes], MaxDates) \ {<<>>}} :
              C \in (SUBSET Tickers) \ {{}}}

InitRet ==
    /\ portfolio_df \in {[rows |-> r, dtype |-> IF r = <<>> THEN "object" ELSE "float64"] :
                            r \in SeqsUpTo(Lots, MaxLots)}
    /\ prices_df \in {p \in Panels : NaNCount(p.rows, p.cols) <= MaxNaN}
    /\ pct_fill \in {"pad", "none"}
    /\ (NaNCount(prices_df.rows, prices_df.cols) = 0 => pct_fill = "pad")
    /\ current_prices = <<>>
    /\ result_df = NoFrame
    /\ summary = NoSummary
    /\ returns_out = NoReturns
    /\ returns = <<>>
    /\ benchmark_returns = <<>>
    /\ risk_free_rate = Zero
    /\ periods_per_year = 1
    /\ metric = NoMetric
    /\ db_holdings = <<>>
    /\ pc = "input"

CalculatePortfolioReturns ==
    /\ pc = "input"
    /\ returns_out' = calculate_portfolio_returns(prices_df, portfolio_df, pct_fill)
    /\ pc' = "returns"
    /\ UNCHANGED <<portfolio_df, current_prices, result_df, summary, prices_df,
                   pct_fill, returns, benchmark_returns, risk_free_rate,
                   periods_per_year, metric, db_holdings>>

NextRet == CalculatePortfolioReturns

SpecRet == InitRet /\ [][NextRet]_vars

(***************************************************************************)
(* Risk metrics.                                                           *)
(*                                                                         *)
(* A standard deviation is a square root, which is not rational: a value   *)
(* sgn * sqrt(sq) is kept as the record [sgn, sq] with sq a float >= 0 and *)
(* sgn in {-1, 0, 1}; sq = NaN stands for NaN.                             *)
(***************************************************************************)
NonNaN(xs) == SelectSeq(xs, LAMBDA v : ~IsNaN(v))

\* Series.mean(): NaN skipped, NaN for no value
Mean(xs) == RDiv(SumSkipNaN(xs), Num(Len(NonNaN(xs))))

SquaredDeviations(xs, m) == [i \in 1..Len(xs) |-> RMul(RSub(xs[i], m), RSub(xs[i], m))]

\* Series.var(): ddof = 1, NaN when fewer than 2 values are left
Var(xs) ==
    LET v == NonNaN(xs)
    IN  IF Len(v) < 2 THEN NaN
        ELSE RDiv(SumSkipNaN(SquaredDeviations(v, Mean(v))), Num(Len(v) - 1))

SurdNaN == [sgn |-> 0, sq |-> NaN]

SurdZero == [sgn |-> 0, sq |-> Zero]

Sqrt(q) == IF IsNaN(q) THEN SurdNaN ELSE [sgn |-> Sign(q[1]), sq |-> q]

SurdOf(x) == IF IsNaN(x) THEN SurdNaN ELSE [sgn |-> Sign(x[1]), sq |-> RMul(x, x)]

SurdMul(a, b) ==
    IF IsNaN(a.sq) \/ IsNaN(b.sq) THEN SurdNaN
    ELSE IF IsNaN(RMul(a.sq, b.sq)) THEN SurdNaN
    ELSE [sgn |-> a.sgn * b.sgn, sq |-> RMul(a.sq, b.sq)]

SurdDiv(a, b) ==
    IF IsNaN(a.sq) \/ IsNaN(b.sq) THEN SurdNaN
    ELSE IF IsNaN(RDiv(a.sq, b.sq)) THEN SurdNaN
    ELSE [sgn |-> a.sgn * (IF b.sgn = 0 THEN 1 ELSE b.sgn), sq |-> RDiv(a.sq, b.sq)]

\* Series.std()
Std(xs) == Sqrt(Var(xs))

annualized_volatility(rets, ppy) == SurdMul(Std(Values(rets)), Sqrt(Num(ppy)))

\* mutant: no guard against a zero standard deviation
sharpe_ratio_unguarded(rets, rf, ppy) ==
    LET excess_returns == [i \in 1..Len(rets) |-> RSub(rets[i].val, RDiv(rf, Num(ppy)))]
    IN  SurdMul(SurdDiv(SurdOf(Mean(excess_returns)), Std(excess_returns)),
                Sqrt(Num(ppy)))

sharpe_ratio(rets, rf, ppy) ==
    LET excess_returns == [i \in 1..Len(rets) |-> RSub(rets[i].val, RDiv(rf, Num(ppy)))]
    IN  IF Std(excess_returns) = SurdZero THEN SurdZero
        ELSE SurdMul(SurdDiv(SurdOf(Mean(excess_returns)), Std(excess_returns)),
                     Sqrt(Num(ppy)))

RMax(x, y) == IF RLt(x, y) THEN y ELSE x

RMin(x, y) == IF RLt(y, x) THEN y ELSE x

\* Series.expanding().max(): the largest value so far, NaN skipped
RECURSIVE ExpandingMax(_)
ExpandingMax(xs) ==
    IF xs = <<>> THEN <<>>
    ELSE LET n    == Len(xs)
             init == ExpandingMax(SubSeq(xs, 1, n - 1))
             prev == IF n = 1 THEN NaN ELSE init[n - 1]
         IN  Append(init, IF IsNaN(prev) THEN xs[n]
                          ELSE IF IsNaN(xs[n]) THEN prev
                          ELSE RMax(prev, xs[n]))

\* Series.min(): NaN skipped, NaN for no value
RECURSIVE SeriesMin(_)
SeriesMin(xs) ==
    IF xs = <<>> THEN NaN
    ELSE LET rest == SeriesMin(Tail(xs))
         IN  IF IsNaN(Head(xs)) THEN rest
             ELSE IF IsNaN(rest) THEN Head(xs)
             ELSE RMin(Head(xs), rest)

\* mutant: the decline is measured from the first value, not from the peak
DrawdownFromFirst(xs) ==
    LET cumulative == CumProd(OnePlus(xs))
    IN  [i \in 1..Len(xs) |-> RDiv(RSub(cumulative[i], cumulative[1]), cumulative[1])]

\* lines 49-51 and 66-68: the same three statements in both functions
Drawdown(xs) ==
    LET cumulative  == CumProd(OnePlus(xs))
        running_max == ExpandingMax(cumulative)
    IN  [i \in 1..Len(xs) |->
            RDiv(RSub(cumulative[i], running_max[i]), running_max[i])]

max_drawdown(rets) == SeriesMin(Drawdown(Values(rets)))

calculate_drawdown_series(rets) ==
    LET drawdown == Drawdown(Values(rets))
    IN  [i \in 1..Len(rets) |-> [date |-> rets[i].date, val |-> drawdown[i]]]

Dates(series) == {series[i].date : i \in 1..Len(series)}

At(series, d) == (CHOOSE i \in 1..Len(series) : series[i].date = d)

\* mutant: the two series are paired by position, not by date
AlignedByPosition(p, b) ==
    LET n == IF Len(p) < Len(b) THEN Len(p) ELSE Len(b)
    IN  SelectSeq([i \in 1..n |-> [date |-> p[i].date, p |-> p[i].val, b |-> b[i].val]],
                  LAMBDA r : ~IsNaN(r.p) /\ ~IsNaN(r.b))

\* pd.concat([p, b], axis=1).dropna(): the union of the dates, less every
\* date where either side has no value
Aligned(p, b) ==
    LET last  == IF Dates(p) \cup Dates(b) = {} THEN 0
                 ELSE CHOOSE d \in Dates(p) \cup Dates(b) :
                          \A e \in Dates(p) \cup Dates(b) : e <= d
        outer == [d \in 1..last |->
                    [date |-> d,
                     p    |-> IF d \in Dates(p) THEN p[At(p, d)].val ELSE NaN,
                     b    |-> IF d \in Dates(b) THEN b[At(b, d)].val ELSE NaN]]
    IN  SelectSeq(outer, LAMBDA r : ~IsNaN(r.p) /\ ~IsNaN(r.b))

\* Series.cov(): ddof = 1
Cov(xs, ys) ==
    LET mx == Mean(xs)
        my == Mean(ys)
    IN  RDiv(SumSkipNaN([i \in 1..Len(xs) |-> RMul(RSub(xs[i], mx), RSub(ys[i], my))]),
             Num(Len(xs) - 1))

calculate_beta(portfolio_returns, bench) ==
    LET aligned       == Aligned(portfolio_returns, bench)
        portfolio_col == [i \in 1..Len(aligned) |-> aligned[i].p]
        benchmark_col == [i \in 1..Len(aligned) |-> aligned[i].b]
    IN  IF Len(aligned) < 2 THEN One
        ELSE IF Var(benchmark_col) = Zero THEN One
        ELSE RDiv(Cov(portfolio_col, benchmark_col), Var(benchmark_col))

(***************************************************************************)
(* Value at risk.  A confidence level is a rational in (0, 1).  The        *)
(* parametric figure adds a rational to a square root, so it is kept as a  *)
(* pair [a, s] standing for a + s.sgn * sqrt(s.sq).                        *)
(***************************************************************************)
RAbs(x) == <<Abs(x[1]), x[2]>>

RECURSIVE Insert(_, _)
Insert(x, sorted) ==
    IF sorted = <<>> THEN <<x>>
    ELSE IF RLe(x, Head(sorted)) THEN <<x>> \o sorted
    ELSE <<Head(sorted)>> \o Insert(x, Tail(sorted))

RECURSIVE Sorted(_)
Sorted(xs) == IF xs = <<>> THEN <<>> ELSE Insert(Head(xs), Sorted(Tail(xs)))

\* np.percentile(xs, q), method "linear": the value at the position
\* (n - 1) * q / 100 of the sorted values, interpolated between neighbours
Percentile(xs, q) ==
    LET n        == Len(xs)
        sorted   == Sorted(xs)
        position == RDiv(RMul(Num(n - 1), q), Num(100))
        below    == position[1] \div position[2]
        above    == IF below + 1 > n - 1 THEN n - 1 ELSE below + 1
        fraction == RSub(position, Num(below))
    IN  IF NonNaN(xs) # xs THEN NaN
        ELSE RAdd(sorted[below + 1],
                  RMul(fraction, RSub(sorted[above + 1], sorted[below + 1])))

value_at_risk_historical_signed(rets, confidence_level) ==
    IF Len(rets) < 2 THEN Zero
    ELSE Percentile(Values(rets), RMul(RSub(One, confidence_level), Num(100)))

value_at_risk_historical(rets, confidence_level) ==
    IF Len(rets) < 2 THEN Zero
    ELSE RAbs(Percentile(Values(rets), RMul(RSub(One, confidence_level), Num(100))))

\* stats.norm.ppf(p) at the probabilities the model uses, to two decimals
NormPpf(p) ==
    IF p = Rat(1, 2) THEN Zero
    ELSE IF p = Rat(1, 20) THEN Rat(-33, 20)
    ELSE IF p = Rat(9, 10) THEN Rat(32, 25)
    ELSE NaN

AffineZero == [a |-> Zero, s |-> SurdZero]

AffineIsNaN(v) == IsNaN(v.a) \/ IsNaN(v.s.sq)

\* the sign of a + s.sgn * sqrt(s.sq): compare a * a with s.sq when the two
\* terms pull in opposite directions
AffineSign(v) ==
    LET a == Sign(v.a[1])
    IN  IF v.s.sgn = 0 \/ a = v.s.sgn THEN a
        ELSE IF a = 0 THEN v.s.sgn
        ELSE IF RLt(v.s.sq, RMul(v.a, v.a)) THEN a
        ELSE IF v.s.sq = RMul(v.a, v.a) THEN 0
        ELSE v.s.sgn

AffineNeg(v) == [a |-> RNeg(v.a), s |-> [sgn |-> -v.s.sgn, sq |-> v.s.sq]]

AffineAbs(v) ==
    IF AffineIsNaN(v) THEN v
    ELSE IF AffineSign(v) < 0 THEN AffineNeg(v) ELSE v

value_at_risk_parametric(rets, confidence_level) ==
    LET mean    == Mean(Values(rets))
        std     == Std(Values(rets))
        z_score == NormPpf(RSub(One, confidence_level))
        var     == AffineNeg([a |-> mean, s |-> SurdMul(SurdOf(z_score), std)])
    IN  IF Len(rets) < 2 THEN AffineZero ELSE AffineAbs(var)

conditional_value_at_risk(rets, confidence_level) ==
    LET var_threshold == Percentile(Values(rets),
                                    RMul(RSub(One, confidence_level), Num(100)))
        tail_losses   == SelectSeq(Values(rets), LAMBDA v : RLe(v, var_threshold))
    IN  IF Len(rets) < 2 THEN Zero
        ELSE IF Len(tail_losses) = 0 THEN RAbs(var_threshold)
        ELSE RAbs(Mean(tail_losses))

(***************************************************************************)
(* The inputs of the risk metrics.                                         *)
(***************************************************************************)
ReturnValues == {Num(-2), Num(-1), Rat(-1, 2), Zero, Rat(1, 2), One}

Indexed(xs) == [i \in 1..Len(xs) |-> [date |-> i, val |-> xs[i]]]

RiskFreeRates == {Zero, Rat(1, 2)}

PeriodsPerYear == {1, 4}

ConfidenceLevels == {Rat(1, 10), Rat(1, 2), Rat(19, 20)}

InitRisk ==
    /\ returns \in {Indexed(xs) : xs \in SeqsUpTo(ReturnValues, MaxLen)}
    /\ risk_free_rate \in RiskFreeRates
    /\ periods_per_year \in PeriodsPerYear
    /\ benchmark_returns = <<>>
    /\ portfolio_df = NoFrame
    /\ current_prices = <<>>
    /\ result_df = NoFrame
    /\ summary = NoSummary
    /\ prices_df = NoPanel
    /\ pct_fill = "pad"
    /\ returns_out = NoReturns
    /\ metric = NoMetric
    /\ db_holdings = <<>>
    /\ pc = "input"

RiskInputs == <<portfolio_df, current_prices, result_df, summary, prices_df,
                pct_fill, returns_out, returns, benchmark_returns,
                risk_free_rate, periods_per_year, db_holdings>>

AnnualizedVolatility ==
    /\ pc = "input"
    /\ metric' = [fn  |-> "annualized_volatility",
                  val |-> annualized_volatility(returns, periods_per_year)]
    /\ pc' = "measured"
    /\ UNCHANGED RiskInputs

SharpeRatio ==
    /\ pc = "input"
    /\ metric' = [fn  |-> "sharpe_ratio",
                  val |-> sharpe_ratio(returns, risk_free_rate, periods_per_year)]
    /\ pc' = "measured"
    /\ UNCHANGED RiskInputs

MaxDrawdown ==
    /\ pc = "input"
    /\ metric' = [fn |-> "max_drawdown", val |-> max_drawdown(returns)]
    /\ pc' = "measured"
    /\ UNCHANGED RiskInputs

CalculateDrawdownSeries ==
    /\ pc = "input"
    /\ metric' = [fn  |-> "calculate_drawdown_series",
                  val |-> calculate_drawdown_series(returns)]
    /\ pc' = "measured"
    /\ UNCHANGED RiskInputs

CalculateBeta ==
    /\ pc = "input"
    /\ metric' = [fn  |-> "calculate_beta",
                  val |-> calculate_beta(returns, benchmark_returns)]
    /\ pc' = "measured"
    /\ UNCHANGED RiskInputs

ValueAtRiskHistorical ==
    /\ pc = "input"
    /\ \E confidence_level \in ConfidenceLevels :
           metric' = [fn  |-> "value_at_risk_historical",
                      cl  |-> confidence_level,
                      val |-> value_at_risk_historical(returns, confidence_level)]
    /\ pc' = "measured"
    /\ UNCHANGED RiskInputs

ValueAtRiskParametric ==
    /\ pc = "input"
    /\ \E confidence_level \in ConfidenceLevels :
           metric' = [fn  |-> "value_at_risk_parametric",
                      cl  |-> confidence_level,
                      val |-> value_at_risk_parametric(returns, confidence_level)]
    /\ pc' = "measured"
    /\ UNCHANGED RiskInputs

ConditionalValueAtRisk ==
    /\ pc = "input"
    /\ \E confidence_level \in ConfidenceLevels :
           metric' = [fn  |-> "conditional_value_at_risk",
                      cl  |-> confidence_level,
                      val |-> conditional_value_at_risk(returns, confidence_level)]
    /\ pc' = "measured"
    /\ UNCHANGED RiskInputs

NextRisk ==
    \/ AnnualizedVolatility
    \/ SharpeRatio
    \/ MaxDrawdown
    \/ CalculateDrawdownSeries
    \/ ValueAtRiskHistorical
    \/ ValueAtRiskParametric
    \/ ConditionalValueAtRisk

SpecRisk == InitRisk /\ [][NextRisk]_vars

\* a series over some of the dates 1..MaxDates: on each date no entry, NaN or
\* a value
Absent == <<0, -1>>

SeriesOver(vals) ==
    {SelectSeq([d \in 1..MaxDates |-> [date |-> d, val |-> f[d]]],
               LAMBDA e : e.val # Absent) :
        f \in [1..MaxDates -> vals \cup {Absent, NaN}]}

InitBeta ==
    /\ returns \in SeriesOver({Zero, One})
    /\ benchmark_returns \in SeriesOver({One, Num(2)})
    /\ risk_free_rate = Zero
    /\ periods_per_year = 1
    /\ portfolio_df = NoFrame
    /\ current_prices = <<>>
    /\ result_df = NoFrame
    /\ summary = NoSummary
    /\ prices_df = NoPanel
    /\ pct_fill = "pad"
    /\ returns_out = NoReturns
    /\ metric = NoMetric
    /\ db_holdings = <<>>
    /\ pc = "input"

NextBeta == CalculateBeta

SpecBeta == InitBeta /\ [][NextBeta]_vars

(***************************************************************************)
(* Properties of the valuation pass.                                       *)
(***************************************************************************)
RECURSIVE RSum(_)
RSum(xs) == IF xs = <<>> THEN Zero ELSE RAdd(Head(xs), RSum(Tail(xs)))

Priced(row) == row.Ticker \in DOMAIN current_prices

Cost(row) == RMul(Num(row.Quantity), row.Buy_Price)

Worth(row) == RMul(Num(row.Quantity), current_prices[row.Ticker])

H == portfolio_df.rows

CostOfAll == RSum([i \in 1..Len(H) |-> Cost(H[i])])

CostOfPriced == RSum([i \in 1..Len(H) |-> IF Priced(H[i]) THEN Cost(H[i]) ELSE Zero])

WorthOfPriced == RSum([i \in 1..Len(H) |-> IF Priced(H[i]) THEN Worth(H[i]) ELSE Zero])

Perms(n) == {f \in [1..n -> 1..n] : \A i, j \in 1..n : i # j => f[i] # f[j]}

Permuted(df, f) == [rows |-> [i \in 1..Len(df.rows) |-> df.rows[f[i]]], dtype |-> df.dtype]

\* C2 as stated: total_invested and total_value are both summed over the rows
\* whose current price is known, and total_return_pct is their relative
\* difference in percent.
C2_SameValidRows ==
    (pc = "summarized" /\ summary.exc = "") =>
        /\ summary.total_invested = CostOfPriced
        /\ summary.total_value = WorthOfPriced
        /\ (CostOfPriced # Zero =>
              summary.total_return =
                RMul(RDiv(RSub(WorthOfPriced, CostOfPriced), CostOfPriced), Num(100)))

\* C2 amended: total_invested is the sum of total_cost over ALL rows, priced or
\* not; total_value is the sum of current_value over the rows whose current
\* price is known; and when total_invested is not 0, total_return_pct times
\* total_invested equals (total_value - total_invested) * 100.
C2_InvestedAllValuePriced ==
    (pc = "summarized" /\ summary.exc = "") =>
        /\ summary.total_invested = CostOfAll
        /\ summary.total_value = WorthOfPriced
        /\ (CostOfAll # Zero =>
              RMul(summary.total_return, CostOfAll) =
                RMul(RSub(WorthOfPriced, CostOfAll), Num(100)))

C2_Witness ==
    /\ pc = "summarized"
    /\ summary.exc = ""
    /\ \E i, j \in 1..Len(H) :
          /\ Priced(H[i]) /\ Cost(H[i]) # Zero
          /\ ~Priced(H[j]) /\ Cost(H[j]) # Zero

\* C3 as stated: when total_invested = 0 (an empty table, or every row of
\* zero cost) portfolio_summary does not raise and its total_return_pct is an
\* undefined marker, not a number.
C3_ZeroInvestedNeverRaises ==
    (pc = "summarized" /\ CostOfAll = Zero) =>
        summary.exc = "" /\ ~IsFinite(summary.total_return)

\* C4 as stated: a row whose ticker has no current price has current_price,
\* total_cost, current_value, gain_loss and return_pct all undefined.
C4_AllDerivedUndefined ==
    pc = "valued" =>
        \A i \in 1..Len(result_df.rows) :
            IsNaN(result_df.rows[i].Current_Price) =>
                /\ IsNaN(result_df.rows[i].Total_Cost)
                /\ IsNaN(result_df.rows[i].Current_Value)
                /\ IsNaN(result_df.rows[i].Gain_Loss)
                /\ IsNaN(result_df.rows[i].Return_pct)

\* C4 amended: the output has one row per holding, in the input order; a row
\* whose ticker has no current price has current_price, current_value,
\* gain_loss and return_pct undefined while its total_cost is still
\* quantity * buy_price; every other row has current_value = quantity * price
\* and gain_loss = current_value - total_cost.
C4_MissingPriceFlagsRow ==
    pc = "valued" =>
        /\ Len(result_df.rows) = Len(H)
        /\ \A i \in 1..Len(H) :
              LET r == result_df.rows[i]
              IN  /\ r.Ticker = H[i].Ticker
                  /\ r.Quantity = H[i].Quantity
                  /\ r.Buy_Price = H[i].Buy_Price
                  /\ r.Total_Cost = Cost(H[i])
                  /\ IF Priced(H[i])
                     THEN /\ r.Current_Price = current_prices[H[i].Ticker]
                          /\ r.Current_Value = Worth(H[i])
                          /\ r.Gain_Loss = RSub(Worth(H[i]), Cost(H[i]))
                     ELSE /\ IsNaN(r.Current_Price)
                          /\ IsNaN(r.Current_Value)
                          /\ IsNaN(r.Gain_Loss)
                          /\ IsNaN(r.Return_pct)

C4_Witness ==
    /\ pc = "valued"
    /\ Len(H) = 2
    /\ ~Priced(H[1])
    /\ Priced(H[2])
    /\ IsNaN(result_df.rows[1].Current_Value)
    /\ IsFinite(result_df.rows[2].Current_Value)

\* C5: a holding with quantity q > 0 and buy price p > 0 whose ticker has the
\* current price c is valued total_cost = q*p, current_value = q*c,
\* gain_loss = q*c - q*p and return_pct = gain_loss / total_cost * 100; and
\* (AAPL, 10, 100) at 150 gives 1000, 1500, 500 and 50.
C5_ValuedRow ==
    pc = "valued" =>
        \A i \in 1..Len(H) :
            (H[i].Quantity > 0 /\ RLt(Zero, H[i].Buy_Price) /\ Priced(H[i])) =>
                LET r == result_df.rows[i]
                    q == H[i].Quantity
                    p == H[i].Buy_Price
                    c == current_prices[H[i].Ticker]
                IN  /\ r.Total_Cost[1] * p[2] = q * p[1] * r.Total_Cost[2]
                    /\ r.Current_Value[1] * c[2] = q * c[1] * r.Current_Value[2]
                    /\ RAdd(r.Gain_Loss, r.Total_Cost) = r.Current_Value
                    /\ RMul(r.Return_pct, r.Total_Cost) = RMul(r.Gain_Loss, Num(100))
                    /\ (H[i] = [Ticker |-> "AAPL", Quantity |-> 10, Buy_Price |-> Num(100)]
                          /\ c = Num(150)) =>
                            /\ r.Total_Cost = Num(1000)
                            /\ r.Current_Value = Num(1500)
                            /\ r.Gain_Loss = Num(500)
                            /\ r.Return_pct = Num(50)

C5_Witness ==
    /\ pc = "valued"
    /\ "AAPL" \in DOMAIN current_prices
    /\ current_prices["AAPL"] = Num(150)
    /\ \E i \in 1..Len(H) :
          /\ H[i] = [Ticker |-> "AAPL", Quantity |-> 10, Buy_Price |-> Num(100)]
          /\ result_df.rows[i].Return_pct = Num(50)

\* C6: the total_invested of portfolio_summary(calculate_portfolio_values(H,
\* prices)) is the sum of quantity * buy_price over all the holdings of H,
\* whatever tickers the price map lacks, and is the same for every permutation
\* of H.
C6_TotalInvestedAllHoldings ==
    pc = "summarized" =>
        /\ summary.total_invested = CostOfAll
        /\ \A f \in Perms(Len(H)) :
              portfolio_summary(
                  calculate_portfolio_values(Permuted(portfolio_df, f), current_prices)
              ).total_invested = summary.total_invested

C6_Witness ==
    /\ pc = "summarized"
    /\ Len(H) = 2
    /\ Cost(H[1]) # Cost(H[2])
    /\ Cost(H[1]) # Zero
    /\ ~Priced(H[1])
    /\ Priced(H[2])
    /\ summary.total_invested = RAdd(Cost(H[1]), Cost(H[2]))

(***************************************************************************)
(* Properties of the return reconstruction.                                *)
(***************************************************************************)
\* the weights left after line 72: those of the tickers in both the holdings
\* and the panel columns
AppliedWeights ==
    LET weights == Weights(portfolio_df)
    IN  [t \in CommonTickers(prices_df, portfolio_df) |-> weights[t]]

AppliedWeightSum ==
    LET keys == SetToSeq(DOMAIN AppliedWeights)
    IN  RSum([i \in 1..Len(keys) |-> AppliedWeights[keys[i]]])

\* the simple return series of one ticker on the dates the series keeps
TickerReturns(t, series) ==
    [i \in 1..Len(series) |-> PctChange(prices_df, pct_fill)[series[i].date][t]]

\* C1 as stated: for holdings of positive quantity and buy price, the weights
\* applied to the tickers that have price history sum to 1, and when exactly
\* one held ticker has price history the portfolio return series is that
\* ticker's simple return series.
C1_AppliedWeightsSumToOne ==
    (pc = "returns" /\ CommonTickers(prices_df, portfolio_df) # {}
                    /\ returns_out.returns # <<>>) =>
        /\ AppliedWeightSum = One
        /\ \A t \in Tickers :
              CommonTickers(prices_df, portfolio_df) = {t} =>
                  Values(returns_out.returns) = TickerReturns(t, returns_out.returns)

(***************************************************************************)
(* Properties of the risk metrics.                                         *)
(***************************************************************************)
R == Values(returns)

AllAboveMinusOne == \A i \in 1..Len(R) : RLt(Num(-1), R[i])

AllIdentical == \A i, j \in 1..Len(R) : R[i] = R[j]

\* m is the minimum of the values xs, undefined for no value
IsMinimumOf(m, xs) ==
    IF xs = <<>> THEN IsNaN(m)
    ELSE /\ \E i \in 1..Len(xs) : xs[i] = m
         /\ \A i \in 1..Len(xs) : RLe(m, xs[i])

DrawdownContract ==
    /\ (metric.fn = "calculate_drawdown_series" =>
          \A i \in 1..Len(metric.val) : RLe(metric.val[i].val, Zero))
    /\ (metric.fn = "max_drawdown" =>
          IsMinimumOf(metric.val, Values(calculate_drawdown_series(returns))))

\* C7 as stated: for every return series, returns at or below -1 included,
\* every value of calculate_drawdown_series is <= 0 and max_drawdown is the
\* minimum of calculate_drawdown_series.
C7_DrawdownNeverPositive == pc = "measured" => DrawdownContract

\* C7 amended: for every return series whose values are all greater than -1,
\* every value of calculate_drawdown_series is <= 0 and max_drawdown is the
\* minimum of calculate_drawdown_series (undefined for the empty series).
C7_DrawdownNeverPositiveAboveMinusOne ==
    (pc = "measured" /\ AllAboveMinusOne) => DrawdownContract

C7_Witness ==
    /\ pc = "measured"
    /\ metric.fn = "max_drawdown"
    /\ AllAboveMinusOne
    /\ Len(R) = MaxLen
    /\ RLt(metric.val, Zero)
    /\ RLt(Zero, R[1])

\* C8 as stated: annualized_volatility is 0 for a series of 0 or 1 element,
\* for every periods_per_year, and 0 for a series of 2 or more equal values.
C8_DegenerateVolatilityIsZero ==
    (pc = "measured" /\ metric.fn = "annualized_volatility"
                     /\ (Len(R) < 2 \/ AllIdentical)) =>
        metric.val = SurdZero

BothDates ==
    {d \in Dates(returns) \cap Dates(benchmark_returns) :
        /\ ~IsNaN(returns[At(returns, d)].val)
        /\ ~IsNaN(benchmark_returns[At(benchmark_returns, d)].val)}

BothSeq == SetToSeq(BothDates)

PCol == [i \in 1..Len(BothSeq) |-> returns[At(returns, BothSeq[i])].val]

BCol == [i \in 1..Len(BothSeq) |-> benchmark_returns[At(benchmark_returns, BothSeq[i])].val]

\* n * sum(x*y) - sum(x) * sum(y): n*(n-1) times the sample covariance
CoMoment(xs, ys) ==
    RSub(RMul(Num(Len(xs)), RSum([i \in 1..Len(xs) |-> RMul(xs[i], ys[i])])),
         RMul(RSum(xs), RSum(ys)))

\* C10: calculate_beta is exactly 1 when fewer than 2 dates have a value in
\* both series or the benchmark does not vary over those dates; otherwise it
\* is cov(p, b) / var(b) over the dates that have a value in both series.
C10_BetaFallbackAndAlignment ==
    (pc = "measured" /\ metric.fn = "calculate_beta") =>
        IF Cardinality(BothDates) < 2 \/ CoMoment(BCol, BCol) = Zero
        THEN metric.val = One
        ELSE RMul(metric.val, CoMoment(BCol, BCol)) = CoMoment(PCol, BCol)

C10_Witness ==
    /\ pc = "measured"
    /\ metric.fn = "calculate_beta"
    /\ Cardinality(BothDates) >= 2
    /\ CoMoment(BCol, BCol) # Zero
    /\ Dates(returns) # Dates(benchmark_returns)
    /\ Len(returns) # Cardinality(BothDates)
    /\ metric.val # One
    /\ metric.val # Zero

\* the fallback cases of C10 are reached too
C10_FallbackWitness ==
    /\ pc = "measured"
    /\ metric.fn = "calculate_beta"
    /\ Cardinality(BothDates) >= 2
    /\ CoMoment(BCol, BCol) = Zero
    /\ metric.val = One

(***************************************************************************)
(* Properties of value at risk.                                            *)
(***************************************************************************)
RatMeasures == {"value_at_risk_historical", "conditional_value_at_risk"}

\* C11: value_at_risk_historical, value_at_risk_parametric and
\* conditional_value_at_risk return 0.0 for a return series of length 0 or 1,
\* and a non-negative number for every longer series at every confidence
\* level.
C11_ValueAtRiskNonNegative ==
    (pc = "measured") =>
        /\ metric.fn \in RatMeasures =>
              IF Len(returns) < 2 THEN metric.val = Zero
              ELSE IsFinite(metric.val) /\ RLe(Zero, metric.val)
        /\ metric.fn = "value_at_risk_parametric" =>
              IF Len(returns) < 2 THEN metric.val = AffineZero
              ELSE ~AffineIsNaN(metric.val) /\ AffineSign(metric.val) >= 0

\* the historical figure of a series whose low percentile is a loss
C11_Witness ==
    /\ pc = "measured"
    /\ metric.fn = "value_at_risk_historical"
    /\ metric.cl = Rat(19, 20)
    /\ Len(returns) >= 2
    /\ \A i \in 1..Len(returns) : RLt(returns[i].val, Zero)
    /\ RLt(Zero, metric.val)

(***************************************************************************)
(* Properties of the cumulative growth series.                             *)
(***************************************************************************)
\* C12: the cumulative series of calculate_portfolio_returns has the dates of
\* the return series, starts at 1 + return[0], and each later value is the
\* previous one times 1 + return[t].
C12_CumulativeCompounds ==
    (pc = "returns") =>
        LET r == returns_out.returns
            c == returns_out.cumulative
        IN  /\ Len(c) = Len(r)
            /\ \A t \in 1..Len(r) : c[t].date = r[t].date
            /\ r # <<>> => c[1].val = RAdd(One, r[1].val)
            /\ \A t \in 2..Len(r) :
                  c[t].val = RMul(c[t - 1].val, RAdd(One, r[t].val))

\* two dates of non-zero portfolio return
C12_Witness ==
    /\ pc = "returns"
    /\ Len(returns_out.returns) >= 2
    /\ \A t \in 1..2 : returns_out.returns[t].val \notin {Zero, NaN}
    /\ returns_out.cumulative[2].val # RAdd(One, returns_out.returns[2].val)

(***************************************************************************)
(* The worked example of the risk section: five returns in hundredths.     *)
(* Its growth factors multiply to 10294850412 / 10^10, which is wider than *)
(* the integers of the rationals above, so the example is computed over    *)
(* naturals kept as sequences of digits in base Base, lowest digit first,  *)
(* and fractions [sgn, num, den] of such naturals (den = <<>>, zero, marks *)
(* a division by zero).                                                    *)
(***************************************************************************)
Base == 10000

RECURSIVE NatOf(_)
NatOf(n) == IF n = 0 THEN <<>> ELSE <<n % Base>> \o NatOf(n \div Base)

RECURSIVE NatTrim(_)
NatTrim(a) ==
    IF a = <<>> THEN <<>>
    ELSE IF a[Len(a)] = 0 THEN NatTrim(SubSeq(a, 1, Len(a) - 1))
    ELSE a

Digit(a) == IF a = <<>> THEN 0 ELSE Head(a)

Rest(a) == IF a = <<>> THEN <<>> ELSE Tail(a)

RECURSIVE NatAddCarry(_, _, _)
NatAddCarry(a, b, carry) ==
    IF a = <<>> /\ b = <<>> THEN NatOf(carry)
    ELSE LET s == Digit(a) + Digit(b) + carry
         IN  <<s % Base>> \o NatAddCarry(Rest(a), Rest(b), s \div Base)

NatAdd(a, b) == NatAddCarry(a, b, 0)

\* a - b for a >= b
RECURSIVE NatSubBorrow(_, _, _)
NatSubBorrow(a, b, borrow) ==
    IF a = <<>> THEN <<>>
    ELSE LET s == Head(a) - Digit(b) - borrow
         IN  <<(s + Base) % Base>>
                 \o NatSubBorrow(Tail(a), Rest(b), IF s < 0 THEN 1 ELSE 0)

NatSub(a, b) == NatTrim(NatSubBorrow(a, b, 0))

RECURSIVE NatScale(_, _, _)
NatScale(a, digit, carry) ==
    IF a = <<>> THEN NatOf(carry)
    ELSE LET s == Head(a) * digit + carry
         IN  <<s % Base>> \o NatScale(Tail(a), digit, s \div Base)

RECURSIVE NatMul(_, _)
NatMul(a, b) ==
    IF a = <<>> \/ b = <<>> THEN <<>>
    ELSE LET high == NatMul(a, Tail(b))
         IN  NatAdd(NatTrim(NatScale(a, Head(b), 0)),
                    IF high = <<>> THEN <<>> ELSE <<0>> \o high)

RECURSIVE NatLt(_, _)
NatLt(a, b) ==
    IF Len(a) # Len(b) THEN Len(a) < Len(b)
    ELSE IF a = <<>> THEN FALSE
    ELSE LET n == Len(a)
         IN  IF a[n] # b[n] THEN a[n] < b[n]
             ELSE NatLt(SubSeq(a, 1, n - 1), SubSeq(b, 1, n - 1))

Wide(x) == [sgn |-> Sign(x[1]), num |-> NatOf(Abs(x[1])), den |-> NatOf(x[2])]

WideNeg(x) == [sgn |-> -x.sgn, num |-> x.num, den |-> x.den]

WideAdd(x, y) ==
    LET a   == NatMul(x.num, y.den)
        b   == NatMul(y.num, x.den)
        den == NatMul(x.den, y.den)
    IN  IF x.sgn = y.sgn THEN [sgn |-> x.sgn, num |-> NatAdd(a, b), den |-> den]
        ELSE IF x.sgn = 0 THEN [sgn |-> y.sgn, num |-> b, den |-> den]
        ELSE IF y.sgn = 0 THEN [sgn |-> x.sgn, num |-> a, den |-> den]
        ELSE IF a = b THEN [sgn |-> 0, num |-> <<>>, den |-> den]
        ELSE IF NatLt(b, a) THEN [sgn |-> x.sgn, num |-> NatSub(a, b), den |-> den]
        ELSE [sgn |-> y.sgn, num |-> NatSub(b, a), den |-> den]

WideSub(x, y) == WideAdd(x, WideNeg(y))

WideMul(x, y) ==
    [sgn |-> x.sgn * y.sgn, num |-> NatMul(x.num, y.num), den |-> NatMul(x.den, y.den)]

WideDiv(x, y) ==
    [sgn |-> IF y.sgn = 0 THEN x.sgn ELSE x.sgn * y.sgn,
     num |-> NatMul(x.num, y.den),
     den |-> NatMul(x.den, y.num)]

WideLt(x, y) == WideSub(x, y).sgn < 0

WideEq(x, y) == WideSub(x, y).sgn = 0

WideOnePlus(xs) == [i \in 1..Len(xs) |-> WideAdd(Wide(One), Wide(xs[i]))]

WideCumProdUncompounded(xs) == xs

\* Series.cumprod() over the wide fractions
RECURSIVE WideCumProd(_)
WideCumProd(xs) ==
    IF xs = <<>> THEN <<>>
    ELSE LET n    == Len(xs)
             init == WideCumProd(SubSeq(xs, 1, n - 1))
         IN  Append(init, IF init = <<>> THEN xs[n] ELSE WideMul(init[n - 1], xs[n]))

\* Series.expanding().max()
RECURSIVE WideExpandingMax(_)
WideExpandingMax(xs) ==
    IF xs = <<>> THEN <<>>
    ELSE LET n    == Len(xs)
             init == WideExpandingMax(SubSeq(xs, 1, n - 1))
         IN  Append(init, IF init = <<>> \/ WideLt(init[n - 1], xs[n])
                          THEN xs[n] ELSE init[n - 1])

WideDrawdown(xs) ==
    LET cumulative  == WideCumProd(WideOnePlus(xs))
        running_max == WideExpandingMax(cumulative)
    IN  [i \in 1..Len(xs) |->
            WideDiv(WideSub(cumulative[i], running_max[i]), running_max[i])]

\* Series.min()
RECURSIVE WideSeriesMin(_)
WideSeriesMin(xs) ==
    IF Len(xs) = 1 THEN xs[1]
    ELSE LET rest == WideSeriesMin(Tail(xs))
         IN  IF WideLt(rest, Head(xs)) THEN rest ELSE Head(xs)

WideMaxDrawdown(rets) == WideSeriesMin(WideDrawdown(Values(rets)))

WideCumulative(rets) == WideCumProd(WideOnePlus(Values(rets)))

Example == <<Rat(1, 100), Rat(-2, 100), Rat(3, 100), Rat(-1, 100), Rat(2, 100)>>

\* the example's returns in every order
InitExample ==
    /\ returns \in {Indexed([i \in 1..Len(Example) |-> Example[f[i]]]) :
                        f \in Perms(Len(Example))}
    /\ risk_free_rate = Zero
    /\ periods_per_year = 1
    /\ benchmark_returns = <<>>
    /\ portfolio_df = NoFrame
    /\ current_prices = <<>>
    /\ result_df = NoFrame
    /\ summary = NoSummary
    /\ prices_df = NoPanel
    /\ pct_fill = "pad"
    /\ returns_out = NoReturns
    /\ metric = NoMetric
    /\ db_holdings = <<>>
    /\ pc = "input"

ExampleMaxDrawdown ==
    /\ pc = "input"
    /\ metric' = [fn |-> "max_drawdown", val |-> WideMaxDrawdown(returns)]
    /\ pc' = "measured"
    /\ UNCHANGED RiskInputs

ExampleCumulative ==
    /\ pc = "input"
    /\ metric' = [fn |-> "cumulative", val |-> WideCumulative(returns)]
    /\ pc' = "measured"
    /\ UNCHANGED RiskInputs

NextExample == ExampleMaxDrawdown \/ ExampleCumulative

SpecExample == InitExample /\ [][NextExample]_vars

\* x rounded to four decimal places is k / 10^4
RoundsTo(x, k) ==
    LET a    == NatMul(x.num, NatOf(10000))
        b    == NatMul(NatOf(k), x.den)
        diff == IF NatLt(a, b) THEN NatSub(b, a) ELSE NatSub(a, b)
    IN  x.sgn = 1 /\ ~NatLt(x.den, NatMul(NatOf(2), diff))

ExampleDrawdownHolds ==
    (pc = "measured" /\ metric.fn = "max_drawdown" /\ Values(returns) = Example) =>
        WideEq(metric.val, Wide(Rat(-2, 100)))

\* C13 as stated: for the returns [0.01, -0.02, 0.03, -0.01, 0.02] the maximum
\* drawdown is -0.02 and the last cumulative value is 1.0291 to four decimal
\* places.
C13_ExampleAsStated ==
    /\ ExampleDrawdownHolds
    /\ (pc = "measured" /\ metric.fn = "cumulative" /\ Values(returns) = Example) =>
           RoundsTo(metric.val[Len(Example)], 10291)

\* C13: for the returns [0.01, -0.02, 0.03, -0.01, 0.02] the maximum drawdown
\* is -0.02 and the last cumulative value is 1.0295 to four decimal places
\* (1.01 * 0.98 * 1.03 * 0.99 * 1.02 = 1.0294850412), in whichever order the
\* five returns come.
C13_ExampleGrowth ==
    /\ ExampleDrawdownHolds
    /\ (pc = "measured" /\ metric.fn = "cumulative") =>
           RoundsTo(metric.val[Len(Example)], 10295)

C13_Witness ==
    /\ pc = "measured"
    /\ metric.fn = "cumulative"
    /\ Values(returns) = Example
    /\ metric.val[Len(Example)].num = <<2603, 7371, 25>>

(***************************************************************************)
(* The session: st.session_state.portfolio (portfolio_df) edited by the    *)
(* sidebar and the holdings table, saved to and loaded from SQLite.        *)
(***************************************************************************)
LoadOutcomes == {"ok", "read_sql raised"}

SaveOutcomes == {"ok", "connect raised", "DELETE raised", "to_sql raised"}

\* read_sql gives object columns for a table without rows; any exception
\* gives the empty frame
load_portfolio(table, outcome) ==
    IF outcome = "ok" /\ table # <<>> THEN [rows |-> table, dtype |-> "float64"]
    ELSE NoFrame

save_portfolio_draining(df, table, outcome) ==
    [portfolio_df |-> IF outcome = "ok" THEN df ELSE [rows |-> <<>>, dtype |-> df.dtype],
     holdings     |-> IF outcome = "ok" THEN df.rows ELSE table]

\* the frame passed in and the table, after the call.  The DELETE and the
\* inserts are one transaction: it is committed when to_sql returns and
\* rolled back when the call raises before that.
save_portfolio(df, table, outcome) ==
    [portfolio_df |-> df,
     holdings     |-> IF outcome = "ok" THEN df.rows ELSE table]

\* DataFrame.iloc[indices_to_keep].reset_index(drop=True)
KeepRows(df, indices_to_keep) ==
    LET kept == SelectSeq([i \in 1..Len(df.rows) |-> i], LAMBDA i : i \in indices_to_keep)
    IN  [rows |-> [k \in 1..Len(kept) |-> df.rows[kept[k]]], dtype |-> df.dtype]

InitApp ==
    /\ db_holdings \in SeqsUpTo(Lots, MaxHoldings)
    /\ portfolio_df \in {load_portfolio(db_holdings, o) : o \in LoadOutcomes}
    /\ current_prices = <<>>
    /\ result_df = NoFrame
    /\ summary = NoSummary
    /\ prices_df = NoPanel
    /\ pct_fill = "pad"
    /\ returns_out = NoReturns
    /\ returns = <<>>
    /\ benchmark_returns = <<>>
    /\ risk_free_rate = Zero
    /\ periods_per_year = 1
    /\ metric = NoMetric
    /\ pc = "started"

Analytics == <<current_prices, result_df, summary, prices_df, pct_fill,
               returns_out, returns, benchmark_returns, risk_free_rate,
               periods_per_year, metric>>

AddToPortfolio ==
    /\ Len(portfolio_df.rows) < MaxHoldings
    /\ \E new_entry \in Lots :
           portfolio_df' = [rows  |-> Append(portfolio_df.rows, new_entry),
                            dtype |-> "float64"]
    /\ pc' = "added"
    /\ UNCHANGED <<db_holdings, Analytics>>

DeleteSelected ==
    /\ portfolio_df.rows # <<>>
    /\ \E indices_to_keep \in (SUBSET (1..Len(portfolio_df.rows))) \ {1..Len(portfolio_df.rows)} :
           portfolio_df' = KeepRows(portfolio_df, indices_to_keep)
    /\ pc' = "deleted"
    /\ UNCHANGED <<db_holdings, Analytics>>

ClearAll ==
    /\ portfolio_df' = NoFrame
    /\ pc' = "cleared"
    /\ UNCHANGED <<db_holdings, Analytics>>

Load ==
    /\ \E outcome \in LoadOutcomes :
           portfolio_df' = load_portfolio(db_holdings, outcome)
    /\ pc' = "loaded"
    /\ UNCHANGED <<db_holdings, Analytics>>

Save ==
    /\ \E outcome \in SaveOutcomes :
           LET after == save_portfolio(portfolio_df, db_holdings, outcome)
           IN  /\ portfolio_df' = after.portfolio_df
               /\ db_holdings' = after.holdings
               /\ pc' = IF outcome = "ok" THEN "saved" ELSE "save raised"
    /\ UNCHANGED Analytics

NextApp == AddToPortfolio \/ DeleteSelected \/ ClearAll \/ Load \/ Save

SpecApp == InitApp /\ [][NextApp]_vars

\* C14: a save_portfolio call, whether it succeeds or raises part-way, leaves
\* the session's holdings table exactly as it was before the call, after any
\* sequence of add, delete-selected, clear-all, load and save.
C14_SaveLeavesTableIntact ==
    [][pc' \in {"saved", "save raised"} => portfolio_df' = portfolio_df]_vars

\* a save has raised with holdings in the session that the file does not have
C14_Witness ==
    /\ pc = "save raised"
    /\ portfolio_df.rows # <<>>
    /\ portfolio_df.rows # db_holdings
    /\ db_holdings # <<>>

(***************************************************************************)
(* Properties of the dates and the degenerate inputs of the return         *)
(* reconstruction.                                                         *)
(***************************************************************************)
Included == CommonTickers(prices_df, portfolio_df)

ReturnDates == {returns_out.returns[i].date : i \in 1..Len(returns_out.returns)}

\* the weighted sum of the included tickers' simple returns on date t
WeightedReturn(t) ==
    LET keys == SetToSeq(Included)
    IN  RSum([k \in 1..Len(keys) |->
                 RMul(AppliedWeights[keys[k]],
                      PctChange(prices_df, pct_fill)[t][keys[k]])])

\* C15 as stated: a trading date is in the portfolio return series exactly
\* when every included ticker (held and in the panel) has a defined return
\* on it, whatever the panel's other columns hold, and the portfolio return
\* on a kept date is the weighted sum of the included tickers' returns.
C15_DatesOfIncludedTickers ==
    (pc = "returns" /\ Included # {}) =>
        /\ \A t \in 1..Len(prices_df.rows) :
              t \in ReturnDates <=>
                  \A c \in Included : ~IsNaN(PctChange(prices_df, pct_fill)[t][c])
        /\ \A i \in 1..Len(returns_out.returns) :
              returns_out.returns[i].val = WeightedReturn(returns_out.returns[i].date)

NoUsableHistory ==
    \/ prices_df = NoPanel
    \/ Included = {}
    \/ Len(prices_df.rows) < 2

ZeroOrUndefined(fn, val) ==
    CASE fn \in {"annualized_volatility", "sharpe_ratio"} -> val \in {SurdZero, SurdNaN}
      [] fn = "value_at_risk_parametric" -> val = AffineZero \/ AffineIsNaN(val)
      [] fn = "calculate_drawdown_series" -> val = <<>>
      [] OTHER -> val \in {Zero, NaN}

Benchmarks == {<<>>, Indexed(<<One, Num(2)>>)}

\* C17 as stated: when no held ticker has usable price history (no panel, no
\* panel column of a held ticker, or fewer than 2 rows), the return and the
\* cumulative series are empty, and every risk metric of the empty series is
\* zero or undefined.
C17_NoHistoryGivesEmptySeries ==
    (pc = "returns" /\ NoUsableHistory) =>
        /\ returns_out.returns = <<>>
        /\ returns_out.cumulative = <<>>
        /\ \A ppy \in PeriodsPerYear, rf \in RiskFreeRates, cl \in ConfidenceLevels :
              /\ ZeroOrUndefined("annualized_volatility", annualized_volatility(<<>>, ppy))
              /\ ZeroOrUndefined("sharpe_ratio", sharpe_ratio(<<>>, rf, ppy))
              /\ ZeroOrUndefined("max_drawdown", max_drawdown(<<>>))
              /\ ZeroOrUndefined("calculate_drawdown_series", calculate_drawdown_series(<<>>))
              /\ ZeroOrUndefined("value_at_risk_historical", value_at_risk_historical(<<>>, cl))
              /\ ZeroOrUndefined("value_at_risk_parametric", value_at_risk_parametric(<<>>, cl))
              /\ ZeroOrUndefined("conditional_value_at_risk", conditional_value_at_risk(<<>>, cl))
        /\ \A bench \in Benchmarks :
              ZeroOrUndefined("calculate_beta", calculate_beta(<<>>, bench))

(***************************************************************************)
(* Tables with several lots of one ticker, over panels of three dates.     *)
(***************************************************************************)
LotKinds == {[Ticker |-> "AAPL", Quantity |-> 1, Buy_Price |-> Num(100)],
             [Ticker |-> "AAPL", Quantity |-> 2, Buy_Price |-> Num(100)],
             [Ticker |-> "MSFT", Quantity |-> 1, Buy_Price |-> Num(300)]}

PanelDates == 1..3

FullPanels ==
    UNION {{[cols |-> C, rows |-> r] : r \in [PanelDates -> [C -> Closes \ {NaN}]]} :
              C \in (SUBSET Tickers) \ {{}}}

InitLots ==
    /\ portfolio_df \in {[rows |-> r, dtype |-> IF r = <<>> THEN "object" ELSE "float64"] :
                            r \in SeqsUpTo(LotKinds, MaxMerged)}
    /\ prices_df \in FullPanels
    /\ pct_fill = "pad"
    /\ current_prices = <<>>
    /\ result_df = NoFrame
    /\ summary = NoSummary
    /\ returns_out = NoReturns
    /\ returns = <<>>
    /\ benchmark_returns = <<>>
    /\ risk_free_rate = Zero
    /\ periods_per_year = 1
    /\ metric = NoMetric
    /\ db_holdings = <<>>
    /\ pc = "input"

SpecLots == InitLots /\ [][NextRet]_vars

\* the table with the lots of ticker t replaced, at the place of the first of
\* them, by one lot whose quantity * buy_price is the sum of theirs
Merged(df, t) ==
    LET first == CHOOSE i \in 1..Len(df.rows) :
                     /\ df.rows[i].Ticker = t
                     /\ \A j \in 1..(i - 1) : df.rows[j].Ticker # t
        one   == [Ticker |-> t, Quantity |-> 1, Buy_Price |-> Aggregated(df)[t]]
        kept  == SelectSeq([i \in 1..Len(df.rows) |->
                               IF i = first THEN one ELSE df.rows[i]],
                           LAMBDA row : row.Ticker # t \/ row = one)
    IN  [rows |-> kept, dtype |-> df.dtype]

\* C16: the return and cumulative series of calculate_portfolio_returns are
\* the same for every reordering of the holdings table and for the table in
\* which the lots of one ticker are merged into a single lot of the same
\* total quantity * buy_price.
C16_LotsAggregateInAnyOrder ==
    (pc = "returns") =>
        /\ \A f \in Perms(Len(portfolio_df.rows)) :
              calculate_portfolio_returns(prices_df, Permuted(portfolio_df, f), pct_fill)
                  = returns_out
        /\ \A t \in HeldTickers(portfolio_df) :
              calculate_portfolio_returns(prices_df, Merged(portfolio_df, t), pct_fill)
                  = returns_out

\* two unequal lots of AAPL around a lot of MSFT, both priced, with returns
\* that differ between the tickers
C16_Witness ==
    /\ pc = "returns"
    /\ Len(portfolio_df.rows) = 3
    /\ portfolio_df.rows[1].Ticker = "AAPL"
    /\ portfolio_df.rows[2].Ticker = "MSFT"
    /\ portfolio_df.rows[3].Ticker = "AAPL"
    /\ portfolio_df.rows[1] # portfolio_df.rows[3]
    /\ prices_df.cols = Tickers
    /\ Len(returns_out.returns) = 2
    /\ \A i \in 1..2 : TickerReturns("AAPL", returns_out.returns)[i]
                          # TickerReturns("MSFT", returns_out.returns)[i]

====
